---- MODULE Spec2Model ----
(***************************************************************************)
(* CSV upload pipeline of the Lambda handler: multipart extraction, CSV    *)
(* validation, preview, row extraction, S3 archive and DynamoDB write.     *)
(*                                                                         *)
(* Text and bytes are sequences of tokens <<c, n>>: the character (or      *)
(* byte) c repeated n times.  n > 1 is used only for the delimiter ",",    *)
(* so that files around the 5 MiB limit have a finite representation.      *)
(***************************************************************************)
EXTENDS Integers, Sequences, FiniteSets, TLC

(***************************************************************************)
(* Strings                                                                 *)
(***************************************************************************)
Lit(s) == [i \in 1..Len(s) |-> <<s[i], 1>>]

Run(c, n) == IF n > 0 THEN << <<c, n>> >> ELSE << >>

\* len(): the sum of the repeat counts (halving keeps the recursion shallow)
RECURSIVE StrLen(_)
StrLen(s) ==
    IF Len(s) = 0 THEN 0
    ELSE IF Len(s) = 1 THEN s[1][2]
    ELSE StrLen(SubSeq(s, 1, Len(s) \div 2)) + StrLen(SubSeq(s, Len(s) \div 2 + 1, Len(s)))

UpperChars == <<"A","B","C","D","E","F","G","H","I","J","K","L","M","N","O","P","Q","R","S","T","U","V","W","X","Y","Z">>
LowerChars == <<"a","b","c","d","e","f","g","h","i","j","k","l","m","n","o","p","q","r","s","t","u","v","w","x","y","z">>

LowerChar(c) ==
    IF \E k \in 1..26 : UpperChars[k] = c
    THEN LowerChars[CHOOSE k \in 1..26 : UpperChars[k] = c]
    ELSE c

Lower(s) == [i \in 1..Len(s) |-> <<LowerChar(s[i][1]), s[i][2]>>]

StartsWith(s, p) == Len(p) <= Len(s) /\ SubSeq(s, 1, Len(p)) = p

EndsWith(s, p) == Len(p) <= Len(s) /\ SubSeq(s, Len(s) - Len(p) + 1, Len(s)) = p

MatchAt(s, i, p) == i + Len(p) - 1 <= Len(s) /\ SubSeq(s, i, i + Len(p) - 1) = p

\* str.find over token positions: index of the first match, 0 when absent
Find(s, p) ==
    LET hits == {i \in 1..Len(s) : MatchAt(s, i, p)}
    IN IF hits = {} THEN 0 ELSE CHOOSE i \in hits : \A j \in hits : i <= j

Contains(s, p) == p = << >> \/ Find(s, p) # 0

From(s, i) == SubSeq(s, i, Len(s))

\* s[k:] for a character offset k
RECURSIVE DropChars(_, _)
DropChars(s, k) ==
    IF k <= 0 \/ s = << >> THEN s
    ELSE IF Head(s)[2] <= k THEN DropChars(Tail(s), k - Head(s)[2])
    ELSE << <<Head(s)[1], Head(s)[2] - k>> >> \o Tail(s)

\* str.split(sep): the pieces between the occurrences of sep
RECURSIVE Split(_, _)
Split(s, sep) ==
    LET i == Find(s, sep) IN
    IF i = 0 THEN << s >>
    ELSE << SubSeq(s, 1, i - 1) >> \o Split(From(s, i + Len(sep)), sep)

RStrip(s, chars) ==
    LET keep == {i \in 1..Len(s) : s[i][1] \notin chars}
    IN IF keep = {} THEN << >> ELSE SubSeq(s, 1, CHOOSE i \in keep : \A j \in keep : j <= i)

LStrip(s, chars) ==
    LET keep == {i \in 1..Len(s) : s[i][1] \notin chars}
    IN IF keep = {} THEN << >> ELSE SubSeq(s, CHOOSE i \in keep : \A j \in keep : i <= j, Len(s))

Whitespace == {" ", "\t", "\n", "\r"}

Strip(s) == LStrip(RStrip(s, Whitespace), Whitespace)

(***************************************************************************)
(* UTF-8.  The bytes "xC3" "xA9" encode the one character "uE9"; the byte  *)
(* "xFF" is never valid; every other byte is ASCII and stands for itself.  *)
(***************************************************************************)
\* position i holds the lead byte / the continuation byte of a complete pair
PairLead(b, i) == b[i][1] = "xC3" /\ i < Len(b) /\ b[i + 1][1] = "xA9"

PairTail(b, i) == b[i][1] = "xA9" /\ i > 1 /\ b[i - 1][1] = "xC3"

Utf8Valid(b) ==
    \A i \in 1..Len(b) :
        CASE b[i][1] = "xC3" -> PairLead(b, i)
          [] b[i][1] = "xA9" -> PairTail(b, i)
          [] OTHER -> b[i][1] # "xFF"

\* bytes.decode('utf-8', errors='ignore'): undecodable bytes are dropped
DecodeIgnore(b) ==
    LET marked == [i \in 1..Len(b) |->
                      IF PairLead(b, i) THEN <<"uE9", 1>>
                      ELSE IF b[i][1] \in {"xC3", "xA9", "xFF"} THEN <<"", 0>>
                      ELSE b[i]]
    IN SelectSeq(marked, LAMBDA t : t[2] > 0)

\* bytes.decode('utf-8'): the text, or "UnicodeDecodeError"
Decode(b) ==
    IF Utf8Valid(b) THEN [err |-> "", text |-> DecodeIgnore(b)]
    ELSE [err |-> "UnicodeDecodeError", text |-> << >>]

\* str.encode('utf-8')
RECURSIVE Encode(_)
Encode(s) ==
    IF Len(s) = 0 THEN << >>
    ELSE IF Len(s) = 1
    THEN (IF s[1][1] = "uE9" THEN << <<"xC3", 1>>, <<"xA9", 1>> >> ELSE << s[1] >>)
    ELSE Encode(SubSeq(s, 1, Len(s) \div 2)) \o Encode(SubSeq(s, Len(s) \div 2 + 1, Len(s)))

(***************************************************************************)
(* csv.reader (excel dialect, non-strict) over io.StringIO: the character  *)
(* state machine of the standard library.  A record is a sequence of       *)
(* <<field, count>>: the field repeated count times.                       *)
(***************************************************************************)
CsvFieldLimit == 131072

NewLineError == "new-line character seen in unquoted field - do you need to open the file in universal-newline mode?"

FieldLimitError == "field larger than field limit (131072)"

ParseReset == [state |-> "START_RECORD", field |-> << >>, fields |-> << >>, err |-> ""]

parse_add_char(st, c, n, next) ==
    IF StrLen(st.field) + n > CsvFieldLimit THEN [st EXCEPT !.err = FieldLimitError]
    ELSE [st EXCEPT !.field = st.field \o << <<c, n>> >>, !.state = next]

\* the current field is saved, followed by extra empty fields
parse_save_field(st, extra, next) ==
    [st EXCEPT !.fields = st.fields \o << <<st.field, 1>> >>
                          \o (IF extra > 0 THEN << << << >>, extra>> >> ELSE << >>),
               !.field = << >>, !.state = next]

parse_process_char(st, c, n) ==
    LET nl == c \in {"\n", "\r"}
        state == IF st.state = "START_RECORD" /\ ~nl THEN "START_FIELD" ELSE st.state
    IN CASE state = "START_RECORD" -> [st EXCEPT !.state = "EAT_CRNL"]
         [] state = "START_FIELD" ->
              IF nl THEN parse_save_field(st, 0, "EAT_CRNL")
              ELSE IF c = "\"" THEN [st EXCEPT !.state = "IN_QUOTED_FIELD"]
              ELSE IF c = "," THEN parse_save_field(st, n - 1, "START_FIELD")
              ELSE parse_add_char(st, c, n, "IN_FIELD")
         [] state = "IN_FIELD" ->
              IF nl THEN parse_save_field(st, 0, "EAT_CRNL")
              ELSE IF c = "," THEN parse_save_field(st, n - 1, "START_FIELD")
              ELSE parse_add_char(st, c, n, "IN_FIELD")
         [] state = "IN_QUOTED_FIELD" ->
              IF c = "\"" THEN [st EXCEPT !.state = "QUOTE_IN_QUOTED_FIELD"]
              ELSE parse_add_char(st, c, n, "IN_QUOTED_FIELD")
         [] state = "QUOTE_IN_QUOTED_FIELD" ->
              IF c = "\"" THEN parse_add_char(st, c, n, "IN_QUOTED_FIELD")
              ELSE IF c = "," THEN parse_save_field(st, n - 1, "START_FIELD")
              ELSE IF nl THEN parse_save_field(st, 0, "EAT_CRNL")
              ELSE parse_add_char(st, c, n, "IN_FIELD")
         [] OTHER ->  \* EAT_CRNL
              IF nl THEN st ELSE [st EXCEPT !.err = NewLineError]

\* the end-of-line marker fed to the state machine after every line
parse_process_eol(st) ==
    CASE st.state \in {"START_FIELD", "IN_FIELD", "QUOTE_IN_QUOTED_FIELD"} ->
              parse_save_field(st, 0, "START_RECORD")
      [] st.state = "EAT_CRNL" -> [st EXCEPT !.state = "START_RECORD"]
      [] OTHER -> st

\* the state after the token, and after the end-of-line marker where the
\* token ends a line
parse_line_end(st1, eol) == IF eol /\ st1.err = "" THEN parse_process_eol(st1) ELSE st1

\* next(csv_reader) from token position i: a row, StopIteration or csv.Error
RECURSIVE Reader_iternext(_, _, _)
Reader_result(s, i, eol, st2) ==
    IF st2.err # ""
    THEN [kind |-> "csv.Error", fields |-> << >>, next |-> i, msg |-> st2.err]
    ELSE IF eol /\ st2.state = "START_RECORD"
    THEN [kind |-> "row", fields |-> st2.fields, next |-> i + 1, msg |-> ""]
    ELSE Reader_iternext(s, i + 1, st2)

Reader_feed(s, i, st, eol) ==
    Reader_result(s, i, eol, parse_line_end(parse_process_char(st, s[i][1], s[i][2]), eol))

Reader_iternext(s, i, st) ==
    IF i > Len(s)
    THEN IF st.field # << >> \/ st.state = "IN_QUOTED_FIELD"
         THEN [kind |-> "row", fields |-> parse_save_field(st, 0, "START_RECORD").fields,
               next |-> i, msg |-> ""]
         ELSE [kind |-> "StopIteration", fields |-> << >>, next |-> i, msg |-> ""]
    ELSE Reader_feed(s, i, st, s[i][1] = "\n" \/ i = Len(s))

csv_reader_next(s, i) == Reader_iternext(s, i, ParseReset)

\* Weighted length, element and last / first position of a record
RECURSIVE WLen(_)
WLen(fs) == IF fs = << >> THEN 0 ELSE Head(fs)[2] + WLen(Tail(fs))

RECURSIVE WAt(_, _)
WAt(fs, j) == IF j <= Head(fs)[2] THEN Head(fs)[1] ELSE WAt(Tail(fs), j - Head(fs)[2])

RECURSIVE WLastIndex(_, _)
WLastIndex(fs, f) ==
    IF fs = << >> THEN 0
    ELSE IF fs[Len(fs)][1] = f THEN WLen(fs)
    ELSE WLastIndex(SubSeq(fs, 1, Len(fs) - 1), f)

RECURSIVE WFirstIndex(_, _)
WFirstIndex(fs, f) ==
    IF fs = << >> THEN 0
    ELSE IF Head(fs)[1] = f THEN 1
    ELSE LET r == WFirstIndex(Tail(fs), f) IN IF r = 0 THEN 0 ELSE Head(fs)[2] + r

FieldSet(fs) == {fs[k][1] : k \in 1..Len(fs)}

(***************************************************************************)
(* csv.DictReader                                                          *)
(***************************************************************************)
\* DictReader.fieldnames: the first record; None (kind "StopIteration") on
\* an empty input
DictReader_fieldnames(s) == csv_reader_next(s, 1)

\* the records after the header, blank records skipped, until the input
\* ends or a csv.Error is raised
RECURSIVE DictReader_rows(_, _)
DictReader_next(s, r) ==
    IF r.kind = "StopIteration" THEN [rows |-> << >>, err |-> ""]
    ELSE IF r.kind = "csv.Error" THEN [rows |-> << >>, err |-> r.msg]
    ELSE LET rest == DictReader_rows(s, r.next)
         IN [rows |-> (IF r.fields = << >> THEN << >> ELSE << r.fields >>) \o rest.rows,
             err |-> rest.err]

DictReader_rows(s, i) == DictReader_next(s, csv_reader_next(s, i))

\* (row.get(col, "") or ""): the cell under the last header named col; None
\* (restval) when the row is shorter
RowGet(fieldnames, row, col) ==
    LET j == WLastIndex(fieldnames, col) IN
    IF j = 0 \/ j > WLen(row) THEN << >> ELSE WAt(row, j)

(***************************************************************************)
(* csv_processor.py                                                        *)
(***************************************************************************)
PREDEFINED_COLUMNS == {
    Lit(<<"u", "s", "e", "r", "_", "i", "d">>),
    Lit(<<"n", "a", "m", "e">>),
    Lit(<<"e", "m", "a", "i", "l">>),
    Lit(<<"p", "h", "o", "n", "e", "_", "n", "u", "m", "b", "e", "r">>),
    Lit(<<"c", "o", "u", "n", "t", "r", "y">>),
    Lit(<<"s", "t", "a", "t", "e">>),
    Lit(<<"c", "i", "t", "y">>),
    Lit(<<"s", "i", "g", "n", "u", "p", "_", "d", "a", "t", "e">>),
    Lit(<<"l", "a", "s", "t", "_", "a", "c", "t", "i", "v", "e", "_", "d", "a", "t", "e">>)
}

MAX_FILE_SIZE_BYTES == 5 * 1024 * 1024

MAX_PREVIEW_ROWS == 10

DotCsv == Lit(<<".", "c", "s", "v">>)

NoDetail == << >>

Ok == [ok |-> TRUE, msg |-> "", detail |-> NoDetail]

Rejected(m, d) == [ok |-> FALSE, msg |-> m, detail |-> d]

\* f"{n/1024/1024:.2f}": hundredths of a MiB, rounded half to even
SizeInHundredths(n) ==
    LET q == (n * 100) \div 1048576
        r == (n * 100) % 1048576
    IN IF r > 524288 \/ (r = 524288 /\ q % 2 = 1) THEN q + 1 ELSE q

\* lines 41-45: next(csv_reader) on the decoded text
validate_first_row(first) ==
    CASE first.kind = "csv.Error" -> Rejected("Invalid CSV format: " \o first.msg, NoDetail)
      [] first.kind = "StopIteration" -> Rejected("Empty CSV file", NoDetail)
      [] OTHER -> Ok

\* lines 33-45: content_str is the outcome of file_content.decode('utf-8')
validate_decoded(content_str) ==
    IF content_str.err # ""
    THEN Rejected("File encoding not supported. Please use UTF-8 encoding", NoDetail)
    ELSE validate_first_row(csv_reader_next(content_str.text, 1))

\* validate_csv_file with the size check moved in front of the extension check
validate_size_first(file_content, filename) ==
    IF StrLen(file_content) > MAX_FILE_SIZE_BYTES
    THEN Rejected("File size exceeds 5MB limit (current: {:.2f}MB)",
                  <<SizeInHundredths(StrLen(file_content))>>)
    ELSE IF ~EndsWith(Lower(filename), DotCsv)
    THEN Rejected("Only .csv files are accepted", NoDetail)
    ELSE validate_decoded(Decode(file_content))

\* validate_csv_file with >= in place of > in the size check
validate_size_inclusive(file_content, filename) ==
    IF ~EndsWith(Lower(filename), DotCsv)
    THEN Rejected("Only .csv files are accepted", NoDetail)
    ELSE IF StrLen(file_content) >= MAX_FILE_SIZE_BYTES
    THEN Rejected("File size exceeds 5MB limit (current: {:.2f}MB)",
                  <<SizeInHundredths(StrLen(file_content))>>)
    ELSE validate_decoded(Decode(file_content))

validate_csv_file(file_content, filename) ==
    IF ~EndsWith(Lower(filename), DotCsv)
    THEN Rejected("Only .csv files are accepted", NoDetail)
    ELSE IF StrLen(file_content) > MAX_FILE_SIZE_BYTES
    THEN Rejected("File size exceeds 5MB limit (current: {:.2f}MB)",
                  <<SizeInHundredths(StrLen(file_content))>>)
    ELSE validate_decoded(Decode(file_content))

Msg(text, args, cols) == [text |-> text, args |-> args, cols |-> cols]

\* pydantic model UserDataRow: nine Optional[str] fields, so every mapping
\* of schema names to strings validates
UserDataRow(normalized_row) ==
    \A k \in DOMAIN normalized_row : k \in PREDEFINED_COLUMNS => StrLen(normalized_row[k]) >= 0

\* column_mapping = {col: col.lower() for col in headers if col.lower() in PREDEFINED_COLUMNS}
column_mapping(headers) ==
    [col \in {h \in FieldSet(headers) : Lower(h) \in PREDEFINED_COLUMNS} |-> Lower(col)]

\* normalized_row[key] = (row.get(col, "") or "").strip(), filled in the
\* dict order of column_mapping: the column that entered the mapping last
\* (latest first occurrence in the header) wins a shared key
mapping_winner(headers, mapping, k) ==
    CHOOSE col \in DOMAIN mapping :
        /\ mapping[col] = k
        /\ \A o \in DOMAIN mapping :
              mapping[o] = k => WFirstIndex(headers, o) <= WFirstIndex(headers, col)

normalized_row_of(headers, row, mapping) ==
    [k \in {mapping[col] : col \in DOMAIN mapping} |->
        Strip(RowGet(headers, row, mapping_winner(headers, mapping, k)))]

normalized_row(headers, row) == normalized_row_of(headers, row, column_mapping(headers))

CSVPreviewResponse(status, message, valid_columns, invalid_columns, total_rows, valid_rows, preview_data, errors) ==
    [status |-> status, message |-> message, valid_columns |-> valid_columns,
     invalid_columns |-> invalid_columns, total_rows |-> total_rows, valid_rows |-> valid_rows,
     preview_data |-> preview_data, errors |-> errors]

ParseFailure(e) ==
    CSVPreviewResponse("error", Msg("Failed to parse CSV file", << >>, {}), {}, {}, 0, 0, << >>,
                       << Msg("Parse error: " \o e, << >>, {}) >>)

Take(s, n) == SubSeq(s, 1, IF Len(s) < n THEN Len(s) ELSE n)

\* lines 114-118: the preview row keeps the original column names
preview_row(valid_columns, nrow) ==
    [original_col \in valid_columns |->
        IF Lower(original_col) \in DOMAIN nrow THEN nrow[Lower(original_col)] ELSE << >>]

\* preview_step failing the rows that hold no value
preview_step_rejecting_blank(acc, row_idx, valid_columns, nrow) ==
    IF \E k \in DOMAIN nrow : nrow[k] # << >>
    THEN [acc EXCEPT !.total_rows = @ + 1,
                     !.valid_rows = @ + 1,
                     !.preview_data = IF Len(@) < MAX_PREVIEW_ROWS
                                      THEN Append(@, preview_row(valid_columns, nrow)) ELSE @]
    ELSE [acc EXCEPT !.total_rows = @ + 1,
                     !.errors = Append(@, Msg("Row {}: {}", <<row_idx + 2>>, {}))]

\* preview_step without the limit on the preview rows
preview_step_uncapped(acc, row_idx, valid_columns, nrow) ==
    [acc EXCEPT !.total_rows = @ + 1,
                !.valid_rows = @ + 1,
                !.preview_data = Append(@, preview_row(valid_columns, nrow))]

\* lines 99-121: one data row, counted, validated and previewed
preview_step(acc, row_idx, valid_columns, nrow) ==
    IF UserDataRow(nrow)
    THEN [acc EXCEPT !.total_rows = @ + 1,
                     !.valid_rows = @ + 1,
                     !.preview_data = IF Len(@) < MAX_PREVIEW_ROWS
                                      THEN Append(@, preview_row(valid_columns, nrow)) ELSE @]
    ELSE [acc EXCEPT !.total_rows = @ + 1,
                     !.errors = Append(@, Msg("Row {}: {}", <<row_idx + 2>>, {}))]

\* the loop over the data rows (lines 98-121)
RECURSIVE preview_loop(_, _, _, _, _)
preview_loop(headers, valid_columns, rows, row_idx, acc) ==
    IF row_idx >= Len(rows) THEN acc
    ELSE preview_loop(headers, valid_columns, rows, row_idx + 1,
                      preview_step(acc, row_idx, valid_columns,
                                   normalized_row(headers, rows[row_idx + 1])))

\* parse_summary with the status taken from the columns alone
parse_summary_without_warning(valid_columns, invalid_columns, acc) ==
    CSVPreviewResponse("success",
                       Msg("Found {} valid rows out of {} total rows",
                           <<acc.valid_rows, acc.total_rows>>, {}),
                       valid_columns, invalid_columns, acc.total_rows, acc.valid_rows,
                       acc.preview_data, Take(acc.errors, 10))

\* lines 123-135: the response after the loop
parse_summary(valid_columns, invalid_columns, acc) ==
    CSVPreviewResponse(IF acc.valid_rows > 0 THEN "success" ELSE "warning",
                       Msg("Found {} valid rows out of {} total rows",
                           <<acc.valid_rows, acc.total_rows>>, {}),
                       valid_columns, invalid_columns, acc.total_rows, acc.valid_rows,
                       acc.preview_data, Take(acc.errors, 10))

\* lines 91-135: body is what iterating the DictReader yields
parse_rows(headers, valid_columns, invalid_columns, body) ==
    IF body.err # "" THEN ParseFailure(body.err)
    ELSE parse_summary(valid_columns, invalid_columns,
                       preview_loop(headers, valid_columns, body.rows, 0,
                                    [total_rows |-> 0, valid_rows |-> 0, errors |-> << >>,
                                     preview_data |-> << >>]))

\* parse_headers without the early return
parse_headers_without_return(text, next, headers, valid_columns, invalid_columns) ==
    parse_rows(headers, valid_columns, invalid_columns, DictReader_rows(text, next))

\* lines 76-135: the no-valid-columns return comes before any data row is read
parse_headers(text, next, headers, valid_columns, invalid_columns) ==
    IF valid_columns = {}
    THEN CSVPreviewResponse("error", Msg("No valid columns found", << >>, {}), {}, invalid_columns,
                            0, 0, << >>,
                            << Msg("No valid columns found. Expected columns: ", << >>,
                                   PREDEFINED_COLUMNS) >>)
    ELSE parse_rows(headers, valid_columns, invalid_columns, DictReader_rows(text, next))

\* lines 68-73: headers = csv_reader.fieldnames or [], and the two column lists
parse_fieldnames(text, first) ==
    IF first.kind = "csv.Error" THEN ParseFailure(first.msg)
    ELSE parse_headers(text, first.next, first.fields,
                       FieldSet(first.fields) \cap PREDEFINED_COLUMNS,
                       FieldSet(first.fields) \ PREDEFINED_COLUMNS)

\* lines 64-65: content_str is the outcome of file_content.decode('utf-8')
parse_decoded(content_str) ==
    IF content_str.err # "" THEN ParseFailure(content_str.err)
    ELSE parse_fieldnames(content_str.text, DictReader_fieldnames(content_str.text))

parse_csv_content(file_content) == parse_decoded(Decode(file_content))

\* any(value for value in normalized_row.values())
AnyValue(nrow) == \E k \in DOMAIN nrow : nrow[k] # << >>

\* extract_keep without the test for a value
extract_keep_all(nrow) == IF UserDataRow(nrow) THEN << nrow >> ELSE << >>

\* lines 176-184: the row is kept when it has a value and validates
extract_keep(nrow) == IF AnyValue(nrow) /\ UserDataRow(nrow) THEN << nrow >> ELSE << >>

RECURSIVE extract_loop(_, _, _)
extract_loop(headers, rows, i) ==
    IF i > Len(rows) THEN << >>
    ELSE extract_keep(normalized_row(headers, rows[i])) \o extract_loop(headers, rows, i + 1)

\* an exception while iterating discards the rows collected so far
extract_from_rows(headers, body) ==
    IF body.err # "" THEN << >> ELSE extract_loop(headers, body.rows, 1)

extract_from_reader(text, first) ==
    IF first.kind = "csv.Error" THEN << >>
    ELSE extract_from_rows(first.fields, DictReader_rows(text, first.next))

extract_decoded(content_str) ==
    IF content_str.err # "" THEN << >>
    ELSE extract_from_reader(content_str.text, DictReader_fieldnames(content_str.text))

extract_valid_rows(file_content) == extract_decoded(Decode(file_content))

(***************************************************************************)
(* handler.py: parse_multipart_file                                        *)
(***************************************************************************)
BoundaryEq == Lit(<<"b", "o", "u", "n", "d", "a", "r", "y", "=">>)

DashDash == Lit(<<"-", "-">>)

FilenameEq == Lit(<<"f", "i", "l", "e", "n", "a", "m", "e", "=">>)

FilenameEqDq == Lit(<<"f", "i", "l", "e", "n", "a", "m", "e", "=", "\"">>)

FilenameEqSq == Lit(<<"f", "i", "l", "e", "n", "a", "m", "e", "=", "'">>)

NameFile == Lit(<<"n", "a", "m", "e", "=", "\"", "f", "i", "l", "e", "\"">>)

CrLfCrLf == Lit(<<"\r", "\n", "\r", "\n">>)

LfLf == Lit(<<"\n", "\n">>)

NoFile == [found |-> FALSE, file_content |-> << >>, filename |-> << >>]

First(hits) == CHOOSE k \in hits : \A o \in hits : k <= o

\* lines 398-401: both quote styles are handled, double quotes first
filename_on_line(line) ==
    IF Contains(line, FilenameEqDq)
    THEN Split(Split(line, FilenameEqDq)[2], Lit(<<"\"">>))[1]
    ELSE IF Contains(line, FilenameEqSq)
    THEN Split(Split(line, FilenameEqSq)[2], Lit(<<"'">>))[1]
    ELSE << >>

\* lines 395-402: the loop stops at the first line containing filename=
filename_in_lines(lines, hits) ==
    IF hits = {} THEN << >> ELSE filename_on_line(lines[First(hits)])

filename_of_lines(lines) ==
    filename_in_lines(lines, {k \in 1..Len(lines) : Contains(lines[k], FilenameEq)})

\* the filename of a part: None (empty) when no line yields one
PartFilename(part) == filename_of_lines(Split(part, Lit(<<"\n">>)))

\* lines 405-407: token position of the blank-line separator, 0 when absent
content_start(part) ==
    IF Find(part, CrLfCrLf) # 0 THEN Find(part, CrLfCrLf) ELSE Find(part, LfLf)

\* lines 412-413: a trailing boundary marker is removed
trim_marker(file_content, marker) ==
    IF EndsWith(file_content, marker)
    THEN SubSeq(file_content, 1, Len(file_content) - Len(marker))
    ELSE file_content

\* line 410: part[content_start + 4:].rstrip('\r\n-'), four characters
\* skipped whichever separator was found
PartContent(part, boundary) ==
    trim_marker(RStrip(DropChars(From(part, content_start(part)), 4), {"\r", "\n", "-"}),
                DashDash \o boundary)

\* lines 392 and 409: the part the loop returns from
ReturnsFile(part) ==
    /\ Contains(part, FilenameEq) /\ Contains(part, NameFile)
    /\ content_start(part) # 0 /\ PartFilename(part) # << >>

\* line 414
file_of_part(part, boundary) ==
    [found |-> TRUE, file_content |-> Encode(PartContent(part, boundary)),
     filename |-> PartFilename(part)]

\* lines 391-416: the first returning part, or (None, None)
file_of_parts(parts, hits, boundary) ==
    IF hits = {} THEN NoFile ELSE file_of_part(parts[First(hits)], boundary)

scan_parts(parts, boundary) ==
    file_of_parts(parts, {k \in 1..Len(parts) : ReturnsFile(parts[k])}, boundary)

\* lines 378-380
boundary_of(content_type) ==
    IF Contains(content_type, BoundaryEq)
    THEN Split(Split(content_type, BoundaryEq)[2], Lit(<<";">>))[1]
    ELSE << >>

\* lines 382-416.  body is [type |-> "bytes" or "str", data |-> ...]: a str
\* body has no decode(), and the AttributeError is answered with (None, None)
\* scan_body splitting the bytes as they came, nothing dropped
scan_body_undecoded(body, boundary) ==
    IF boundary = << >> \/ body.type # "bytes" THEN NoFile
    ELSE scan_parts(Split(body.data, DashDash \o boundary), boundary)

scan_body(body, boundary) ==
    IF boundary = << >> \/ body.type # "bytes" THEN NoFile
    ELSE scan_parts(Split(DecodeIgnore(body.data), DashDash \o boundary), boundary)

parse_multipart_file(body, content_type) == scan_body(body, boundary_of(content_type))

(***************************************************************************)
(* s3_service.py and dynamodb_service.py                                   *)
(***************************************************************************)
\* the clock counts ticks; strftime("%Y-%m-%d_%H-%M-%S") keeps whole seconds
TicksPerSecond == 2

\* a timestamp that keeps the ticks
strftime_ticks(t) == t

strftime(t) == t \div TicksPerSecond

\* s3_key = f"user_data_{timestamp}.csv"
S3Key(timestamp) == [prefix |-> "user_data_", timestamp |-> timestamp, suffix |-> ".csv"]

\* the object upload_fileobj stores under s3_key
S3Object(file_content, filename, timestamp) ==
    [Body |-> file_content, ContentType |-> "text/csv",
     Metadata |-> [original_filename |-> filename, upload_timestamp |-> timestamp,
                   content_length |-> StrLen(file_content)]]

\* boto3 batch_writer flushes after every 25 buffered items and on exit
FlushAmount == 25

\* the item built for the k-th row of a write_csv_data call
DynamoItem(row, k, first_uuid, s3_file_key, timestamp) ==
    [entry_id |-> first_uuid + k - 1, source_file |-> s3_file_key, created_at |-> timestamp,
     fields |-> [f \in {g \in DOMAIN row : row[g] # << >> /\ Strip(row[g]) # << >>} |-> Strip(row[f])]]

DynamoItems(csv_rows, first_uuid, s3_file_key, timestamp) ==
    [k \in 1..Len(csv_rows) |-> DynamoItem(csv_rows[k], k, first_uuid, s3_file_key, timestamp)]

\* number of flushes a call with n rows performs
NumFlushes(n) == (n + FlushAmount - 1) \div FlushAmount

(***************************************************************************)
(* handler.py: responses                                                   *)
(***************************************************************************)
Text(text, detail) == [text |-> text, detail |-> detail]

ErrorResponse(error, message) == [error |-> error, message |-> message]

Response(status_code, body) == [status_code |-> status_code, body |-> body]

NoResponse == Response(0, [error |-> "", message |-> Text("", NoDetail)])

ServiceUnavailable ==
    Response(503, ErrorResponse("ServiceUnavailable", Text("AWS services not properly configured", NoDetail)))

InvalidContentType ==
    Response(400, ErrorResponse("InvalidContentType", Text("Expected multipart/form-data", NoDetail)))

NoFileProvided ==
    Response(400, ErrorResponse("NoFileProvided", Text("No file provided in request", NoDetail)))

InvalidFile(v) == Response(400, ErrorResponse("InvalidFile", Text(v.msg, v.detail)))

ProcessingError(e) ==
    Response(500, ErrorResponse("ProcessingError", Text("Failed to process CSV file: " \o e, NoDetail)))

CSVUploadResponse(n, s3_file_key, records_written) ==
    [status |-> "success", message |-> Text("Successfully processed {} rows", <<n>>),
     s3_file_key |-> s3_file_key, dynamodb_records_written |-> records_written, errors |-> << >>]

MultipartFormData == Lit(<<"m", "u", "l", "t", "i", "p", "a", "r", "t", "/", "f", "o", "r", "m", "-", "d", "a", "t", "a">>)

\* app.current_event.body, base64-decoded when is_base64_encoded: bytes
\* after decoding, otherwise the str (or None) the event carries
EventBody(current_event) ==
    [type |-> IF current_event.is_base64_encoded THEN "bytes" ELSE "str",
     data |-> current_event.body]

(***************************************************************************)
(* Inputs                                                                  *)
(***************************************************************************)
MaxRequests == 2

MaxTime == 2

MaxDataRows == 2

MaxExcess == 1

MaxLongRows == 16

MaxStoreRows == 2

CRLF == Lit(<<"\r", "\n">>)

LF == Lit(<<"\n">>)

Boundary == Lit(<<"B">>)

Closing == DashDash \o Boundary \o DashDash \o CRLF

\* a multipart part carrying a file
FilePart(filename, payload, nl) ==
    DashDash \o Boundary \o nl
    \o Lit(<<"C", "o", "n", "t", "e", "n", "t", "-", "D", "i", "s", "p", "o", "s", "i", "t", "i", "o", "n", ":", " ", "f", "o", "r", "m", "-", "d", "a", "t", "a", ";", " ", "n", "a", "m", "e", "=", "\"", "f", "i", "l", "e", "\"", ";", " ", "f", "i", "l", "e", "n", "a", "m", "e", "=", "\"">>)
    \o filename \o Lit(<<"\"">>) \o nl \o nl \o payload \o nl

\* a multipart part carrying a plain form field
FieldPart ==
    DashDash \o Boundary \o CRLF \o Lit(<<"C", "o", "n", "t", "e", "n", "t", "-", "D", "i", "s", "p", "o", "s", "i", "t", "i", "o", "n", ":", " ", "f", "o", "r", "m", "-", "d", "a", "t", "a", ";", " ", "n", "a", "m", "e", "=", "\"", "n", "o", "t", "e", "\"">>)
    \o CRLF \o CRLF \o Lit(<<"h", "i">>) \o CRLF

\* a part named "file" without a filename attribute
NamelessPart ==
    DashDash \o Boundary \o CRLF \o Lit(<<"C", "o", "n", "t", "e", "n", "t", "-", "D", "i", "s", "p", "o", "s", "i", "t", "i", "o", "n", ":", " ", "f", "o", "r", "m", "-", "d", "a", "t", "a", ";", " ", "n", "a", "m", "e", "=", "\"", "f", "i", "l", "e", "\"">>)
    \o CRLF \o CRLF \o Lit(<<"n", "a", "m", "e">>) \o CRLF

ACsv == Lit(<<"a", ".", "c", "s", "v">>)

UpperCsv == Lit(<<"A", ".", "C", "S", "V">>)

ATxt == Lit(<<"a", ".", "t", "x", "t">>)

TwoRows == Lit(<<"n", "a", "m", "e", ",", "e", "m", "a", "i", "l">>) \o LF \o Lit(<<"1", ",", "a">>) \o LF \o Lit(<<"2", ",", "b">>)

MixedCase == Lit(<<"N", "a", "m", "e", ",", "e", "m", "a", "i", "l">>) \o LF \o Lit(<<"J", ",", "j">>)

NoOverlap == Lit(<<"f", "o", "o", ",", "b", "a", "r">>) \o LF \o Lit(<<"1", ",", "2">>)

HeaderOnly == Lit(<<"n", "a", "m", "e">>)

\* one data row more than a flush of the batch writer takes
BatchFile ==
    HeaderOnly
    \o [i \in 1..(2 * (FlushAmount + 1)) |-> IF i % 2 = 1 THEN <<"\n", 1>> ELSE <<"x", 1>>]

BlankRows == Lit(<<"n", "a", "m", "e", ",", "c", "i", "t", "y">>) \o LF \o Lit(<<" ", ",">>) \o LF \o Lit(<<"x", ",">>)

EmptyFile == << >>

BadByte == Lit(<<"n", "a", "m", "e">>) \o LF \o << <<"xFF", 1>> >> \o Lit(<<"1">>)

NonAscii == Lit(<<"n", "a", "m", "e">>) \o LF \o << <<"xC3", 1>>, <<"xA9", 1>> >>

StrayCr == Lit(<<"n", "a">>) \o << <<"\r", 1>> >> \o Lit(<<"m", "e">>) \o LF \o Lit(<<"1">>)

TooLarge == Lit(<<"n", "a", "m", "e">>) \o LF \o Lit(<<"1">>) \o Run(",", MAX_FILE_SIZE_BYTES)

ContentTypeOk == MultipartFormData \o Lit(<<";", " ", "b", "o", "u", "n", "d", "a", "r", "y", "=", "B">>)

Sent(filename, payload) == [has_file |-> TRUE, filename |-> filename, payload |-> payload]

SentNothing == [has_file |-> FALSE, filename |-> << >>, payload |-> << >>]

\* an event: the headers and body of the request, and (sent) what the
\* client put into it
Event(content_type, is_base64_encoded, body, sent) ==
    [content_type |-> content_type, is_base64_encoded |-> is_base64_encoded, body |-> body,
     sent |-> sent]

Upload(filename, payload, nl) ==
    Event(ContentTypeOk, TRUE, FilePart(filename, payload, nl) \o Closing, Sent(filename, payload))

\* the requests the handlers are given; a request is named by its position
Events ==
    << Upload(ACsv, TwoRows, CRLF), Upload(ACsv, MixedCase, CRLF), Upload(ACsv, NoOverlap, CRLF),
       Upload(ACsv, HeaderOnly, CRLF), Upload(ACsv, BlankRows, CRLF), Upload(ACsv, EmptyFile, CRLF),
       Upload(ACsv, BadByte, CRLF), Upload(ACsv, NonAscii, CRLF), Upload(ACsv, StrayCr, CRLF),
       Upload(ACsv, TooLarge, CRLF),
       Upload(ATxt, TwoRows, CRLF), Upload(ATxt, TooLarge, CRLF), Upload(ATxt, EmptyFile, CRLF),
       Upload(UpperCsv, TwoRows, CRLF), Upload(UpperCsv, TooLarge, CRLF),
       Upload(ACsv, TwoRows, LF), Upload(ACsv, NoOverlap, LF),
       Event(ContentTypeOk, TRUE, FieldPart \o FilePart(ACsv, TwoRows, CRLF) \o Closing,
             Sent(ACsv, TwoRows)),
       Event(ContentTypeOk, TRUE, FieldPart \o Closing, SentNothing),
       Event(ContentTypeOk, TRUE, NamelessPart \o Closing, SentNothing),
       Event(ContentTypeOk, TRUE, << >>, SentNothing),
       Event(ContentTypeOk, FALSE, FilePart(ACsv, TwoRows, CRLF) \o Closing, Sent(ACsv, TwoRows)),
       Event(ContentTypeOk, FALSE, FilePart(ATxt, TwoRows, CRLF) \o Closing, Sent(ATxt, TwoRows)),
       Event(<< >>, TRUE, FilePart(ACsv, TwoRows, CRLF) \o Closing, Sent(ACsv, TwoRows)),
       Event(<< >>, TRUE, FieldPart \o Closing, SentNothing),
       Event(Lit(<<"t", "e", "x", "t", "/", "c", "s", "v">>), TRUE, FilePart(ATxt, TwoRows, CRLF) \o Closing, Sent(ATxt, TwoRows)),
       Event(Lit(<<"a", "p", "p", "l", "i", "c", "a", "t", "i", "o", "n", "/", "j", "s", "o", "n", ";", " ", "b", "o", "u", "n", "d", "a", "r", "y", "=", "B">>), TRUE, FilePart(ACsv, TwoRows, CRLF) \o Closing,
             Sent(ACsv, TwoRows)),
       Event(MultipartFormData, TRUE, FilePart(ACsv, TwoRows, CRLF) \o Closing, Sent(ACsv, TwoRows)),
       Event(MultipartFormData, TRUE, FilePart(ATxt, TwoRows, CRLF) \o Closing, Sent(ATxt, TwoRows)),
       Event(MultipartFormData, TRUE, FieldPart \o Closing, SentNothing),
       Upload(ACsv, BatchFile, CRLF) >>

EventIds == DOMAIN Events

\* what the handlers compute from a request: the extracted file and the
\* results of the csv_processor functions on its content
file_results(current_event, file) ==
    [current_event |-> current_event, file |-> file,
     validation |-> validate_csv_file(file.file_content, file.filename),
     preview |-> parse_csv_content(file.file_content),
     valid_rows |-> extract_valid_rows(file.file_content)]

event_results(current_event) ==
    file_results(current_event,
                 parse_multipart_file(EventBody(current_event), current_event.content_type))

\* computed once per request
Evaluated == [i \in EventIds |-> event_results(Events[i])]

(***************************************************************************)
(* Inputs of the csv_processor functions                                   *)
(***************************************************************************)
HeaderLines ==
    { Lit(<<"n", "a", "m", "e", ",", "e", "m", "a", "i", "l">>),
      Lit(<<"N", "a", "m", "e", ",", "e", "m", "a", "i", "l">>),
      Lit(<<"f", "o", "o", ",", "b", "a", "r">>),
      Lit(<<"N", "A", "M", "E">>),
      Lit(<<"c", "i", "t", "y", ",", "f", "o", "o">>),
      Lit(<<"E", "m", "a", "i", "l", ",", "e", "m", "a", "i", "l">>) }

DataLines == { Lit(<<"1", ",", "a">>), Lit(<<" ", ",">>), Lit(<<"x">>) }

\* the text after the header: at most n data lines, each after a newline
RECURSIVE DataRows(_)
DataRows(n) ==
    IF n = 0 THEN { << >> }
    ELSE DataRows(n - 1) \cup {rows \o LF \o line : rows \in DataRows(n - 1), line \in DataLines}

CsvFiles == {header \o rows : header \in HeaderLines, rows \in DataRows(MaxDataRows)}

\* a well-formed file of exactly n bytes (n >= 6)
Sized(n) == Lit(<<"n", "a", "m", "e", "\n", "1">>) \o Run(",", n - 6)

AroundLimit == {Sized(MAX_FILE_SIZE_BYTES + d) : d \in (0 - MaxExcess)..MaxExcess}

\* over the limit and not UTF-8
TooLargeBadByte == << <<"xFF", 1>> >> \o Run(",", MAX_FILE_SIZE_BYTES)

\* a stray carriage return in a data line / under headers outside the schema
StrayCrInData == TwoRows \o LF \o Lit(<<"3", "\r", "c">>) \o LF \o Lit(<<"4">>)

NoOverlapStrayCr == NoOverlap \o LF \o Lit(<<"3", "\r", "c">>) \o LF \o Lit(<<"4">>)

\* not UTF-8, and a stray carriage return in the header
BadByteStrayCr == << <<"xFF", 1>> >> \o StrayCr

Quoted == Lit(<<"n", "a", "m", "e", "\n", "\"", "a", ",", "\n", "b", "\"">>)

\* more data rows than the preview shows: row k is "x" repeated k times
LongFile ==
    Lit(<<"n", "a", "m", "e">>)
    \o [i \in 1..(2 * MaxLongRows) |-> IF i % 2 = 1 THEN <<"\n", 1>> ELSE <<"x", i \div 2>>]

\* the same with every third data row a single blank
LongFileWithBlanks ==
    Lit(<<"n", "a", "m", "e">>)
    \o [i \in 1..(2 * MaxLongRows) |->
           IF i % 2 = 1 THEN <<"\n", 1>>
           ELSE IF (i \div 2) % 3 = 0 THEN <<" ", 1>> ELSE <<"x", i \div 2>>]

SpecialFiles ==
    { EmptyFile, LF, BadByte, NonAscii, StrayCr, StrayCrInData, NoOverlapStrayCr, BadByteStrayCr,
      Quoted, TwoRows, NoOverlap, HeaderOnly, TooLargeBadByte, BlankRows, LongFile,
      LongFileWithBlanks } \cup AroundLimit

Filenames == { ACsv, UpperCsv, ATxt, Lit(<<"c", "s", "v">>), Lit(<<".", "c", "s", "v">>) }

FnInput(file_content, filename) == [file_content |-> file_content, filename |-> filename]

FnInputs ==
    {FnInput(c, ACsv) : c \in CsvFiles} \cup {FnInput(c, n) : c \in SpecialFiles, n \in Filenames}

(***************************************************************************)
(* State                                                                   *)
(***************************************************************************)
VARIABLES
    s3_service,        \* handler.py globals: "S3Service", or "None" after a failed start
    dynamodb_service,  \* "DynamoDBService" or "None"
    bucket,            \* the S3 bucket: key -> object
    table,             \* the DynamoDB table: set of items
    now,               \* wall clock, in ticks
    next_uuid,         \* the next identifier uuid4 hands out
    pc,                \* position of the running csv_submit: "idle", "upload", "write"
    event,             \* the request being handled, or handled last
    frame,             \* locals of the running csv_submit
    response,          \* the response to event, NoResponse while it is handled
    calls,             \* store calls made for event, in order
    snap,              \* bucket and table when event arrived
    handled,           \* number of requests received
    fn_in,             \* argument of the function under check
    fn_out             \* its result

vars == <<s3_service, dynamodb_service, bucket, table, now, next_uuid, pc, event, frame,
          response, calls, snap, handled, fn_in, fn_out>>

NoEvent == [path |-> "", id |-> 0]

NoFrame == [file_content |-> << >>, filename |-> << >>, s3_file_key |-> S3Key(0)]

NoInput == [file_content |-> << >>, filename |-> << >>]

NoOutput == [op |-> "none"]

EmptyBucket == [k \in {} |-> k]

InitHandler ==
    /\ \E started \in BOOLEAN :
          /\ s3_service = IF started THEN "S3Service" ELSE "None"
          /\ dynamodb_service = IF started THEN "DynamoDBService" ELSE "None"
    /\ bucket = EmptyBucket
    /\ table = {}
    /\ now = 0
    /\ next_uuid = 1
    /\ pc = "idle"
    /\ event = NoEvent
    /\ frame = NoFrame
    /\ response = NoResponse
    /\ calls = << >>
    /\ snap = [bucket |-> EmptyBucket, table |-> {}]
    /\ handled = 0

Init == InitHandler /\ fn_in = NoInput /\ fn_out = NoOutput

(***************************************************************************)
(* handler.py: csv_preview and csv_submit                                  *)
(***************************************************************************)
\* csv_preview_response looking at the content type before the services
csv_preview_content_type_first(r) ==
    IF ~StartsWith(r.current_event.content_type, MultipartFormData) THEN InvalidContentType
    ELSE IF s3_service = "None" \/ dynamodb_service = "None" THEN ServiceUnavailable
    ELSE IF ~r.file.found \/ r.file.file_content = << >> \/ r.file.filename = << >>
    THEN NoFileProvided
    ELSE IF ~r.validation.ok THEN InvalidFile(r.validation)
    ELSE Response(200, r.preview)

\* lines 202-262: the response of csv_preview to a request with results r
csv_preview_response(r) ==
    IF s3_service = "None" \/ dynamodb_service = "None" THEN ServiceUnavailable
    ELSE IF ~StartsWith(r.current_event.content_type, MultipartFormData) THEN InvalidContentType
    ELSE IF ~r.file.found \/ r.file.file_content = << >> \/ r.file.filename = << >>
    THEN NoFileProvided
    ELSE IF ~r.validation.ok THEN InvalidFile(r.validation)
    ELSE Response(200, r.preview)

Receive(path, i) ==
    /\ pc = "idle"
    /\ handled < MaxRequests
    /\ handled' = handled + 1
    /\ event' = [path |-> path, id |-> i]
    /\ snap' = [bucket |-> bucket, table |-> table]
    /\ calls' = << >>

\* csv_preview archiving the file it previews
csv_preview_archiving(i) ==
    /\ Receive("/csv-preview", i)
    /\ \E r \in {Evaluated[i]} :
          /\ response' = csv_preview_response(r)
          /\ bucket' = IF response'.status_code = 200
                       THEN [k \in DOMAIN bucket \cup {S3Key(strftime(now))} |->
                               IF k = S3Key(strftime(now))
                               THEN S3Object(r.file.file_content, r.file.filename, strftime(now))
                               ELSE bucket[k]]
                       ELSE bucket
    /\ UNCHANGED <<s3_service, dynamodb_service, table, now, next_uuid, pc, frame, fn_in, fn_out>>

csv_preview(i) ==
    /\ Receive("/csv-preview", i)
    /\ response' = csv_preview_response(Evaluated[i])
    /\ UNCHANGED <<s3_service, dynamodb_service, bucket, table, now, next_uuid, pc, frame,
                   fn_in, fn_out>>

\* lines 280-336: the early response of csv_submit to a request with
\* results r, NoResponse when the request passes every check
csv_submit_check(r) ==
    IF s3_service = "None" \/ dynamodb_service = "None" THEN ServiceUnavailable
    ELSE IF ~StartsWith(r.current_event.content_type, MultipartFormData) THEN InvalidContentType
    ELSE IF ~r.file.found \/ r.file.file_content = << >> \/ r.file.filename = << >>
    THEN NoFileProvided
    ELSE IF ~r.validation.ok THEN InvalidFile(r.validation)
    ELSE NoResponse

\* csv_submit going to the record store without archiving
csv_submit_without_archive(i) ==
    /\ Receive("/csv-submit", i)
    /\ \E r \in {Evaluated[i]} :
          /\ response' = csv_submit_check(r)
          /\ IF response' = NoResponse
             THEN /\ pc' = "write"
                  /\ frame' = [file_content |-> r.file.file_content,
                               filename |-> r.file.filename, s3_file_key |-> S3Key(0)]
             ELSE UNCHANGED <<pc, frame>>
    /\ UNCHANGED <<s3_service, dynamodb_service, bucket, table, now, next_uuid, fn_in, fn_out>>

csv_submit(i) ==
    /\ Receive("/csv-submit", i)
    /\ \E r \in {Evaluated[i]} :
          /\ response' = csv_submit_check(r)
          /\ IF response' = NoResponse
             THEN /\ pc' = "upload"
                  /\ frame' = [file_content |-> r.file.file_content,
                               filename |-> r.file.filename, s3_file_key |-> S3Key(0)]
             ELSE UNCHANGED <<pc, frame>>
    /\ UNCHANGED <<s3_service, dynamodb_service, bucket, table, now, next_uuid, fn_in, fn_out>>

Call(op, ok, result) == [op |-> op, ok |-> ok, result |-> result]

\* line 339 with s3_service.upload_csv_file succeeding
\* upload_csv_file returning the key without storing the object
upload_csv_file_unarchived ==
    /\ pc = "upload"
    /\ \E timestamp \in {strftime(now)} :
          /\ frame' = [frame EXCEPT !.s3_file_key = S3Key(timestamp)]
          /\ calls' = Append(calls, Call("upload_csv_file", TRUE, timestamp))
    /\ pc' = "write"
    /\ UNCHANGED <<s3_service, dynamodb_service, bucket, table, now, next_uuid, event, response,
                   snap, handled, fn_in, fn_out>>

upload_csv_file ==
    /\ pc = "upload"
    /\ \E timestamp \in {strftime(now)} : \E s3_key \in {S3Key(timestamp)} :
          /\ bucket' = [k \in DOMAIN bucket \cup {s3_key} |->
                           IF k = s3_key
                           THEN S3Object(frame.file_content, frame.filename, timestamp)
                           ELSE bucket[k]]
          /\ frame' = [frame EXCEPT !.s3_file_key = s3_key]
          /\ calls' = Append(calls, Call("upload_csv_file", TRUE, timestamp))
    /\ pc' = "write"
    /\ UNCHANGED <<s3_service, dynamodb_service, table, now, next_uuid, event, response, snap,
                   handled, fn_in, fn_out>>

\* a failed upload that is attempted again
upload_csv_file_retried ==
    /\ pc = "upload"
    /\ Len(calls) < 2
    /\ calls' = Append(calls, Call("upload_csv_file", FALSE, 0))
    /\ UNCHANGED <<s3_service, dynamodb_service, bucket, table, now, next_uuid, pc, event, frame,
                   response, snap, handled, fn_in, fn_out>>

\* line 339 with upload_fileobj raising: upload_csv_file re-raises and the
\* handler answers from its except clause (lines 359-368)
upload_csv_file_fails ==
    /\ pc = "upload"
    /\ calls' = Append(calls, Call("upload_csv_file", FALSE, 0))
    /\ response' = ProcessingError("Failed to upload file to S3: ClientError")
    /\ pc' = "idle"
    /\ UNCHANGED <<s3_service, dynamodb_service, bucket, table, now, next_uuid, event, frame,
                   snap, handled, fn_in, fn_out>>

\* lines 342-357 with the batch write (if any) succeeding; valid_rows is
\* extract_valid_rows(file_content) of the request being handled
write_csv_data ==
    /\ pc = "write"
    /\ \E valid_rows \in {Evaluated[event.id].valid_rows} :
       \E items \in {DynamoItems(valid_rows, next_uuid, frame.s3_file_key, now)} :
       \E records_written \in {IF valid_rows # << >> THEN Len(items) ELSE 0} :
          /\ table' = table \cup {items[k] : k \in 1..Len(items)}
          /\ next_uuid' = next_uuid + Len(items)
          /\ calls' = IF valid_rows # << >>
                      THEN Append(calls, Call("write_csv_data", TRUE, records_written))
                      ELSE calls
          /\ response' = Response(200, CSVUploadResponse(Len(valid_rows), frame.s3_file_key,
                                                         records_written))
    /\ pc' = "idle"
    /\ UNCHANGED <<s3_service, dynamodb_service, bucket, now, event, frame, snap, handled,
                   fn_in, fn_out>>

\* write_csv_data_fails undoing the request: the archived object is deleted
\* and the table is left as the request found it
write_csv_data_fails_rolling_back ==
    /\ pc = "write"
    /\ \E valid_rows \in {Evaluated[event.id].valid_rows} :
          /\ valid_rows # << >>
          /\ next_uuid' = next_uuid + Len(valid_rows)
    /\ bucket' = [k \in DOMAIN bucket \ {frame.s3_file_key} |-> bucket[k]]
    /\ calls' = Append(calls, Call("write_csv_data", FALSE, 0))
    /\ response' = ProcessingError("Failed to write data to DynamoDB: ClientError")
    /\ pc' = "idle"
    /\ UNCHANGED <<s3_service, dynamodb_service, table, now, event, frame, snap, handled,
                   fn_in, fn_out>>

\* lines 342-347 with a flush of the batch writer raising: the batches
\* flushed before it stay in the table
write_csv_data_fails ==
    /\ pc = "write"
    /\ \E valid_rows \in {Evaluated[event.id].valid_rows} :
       \E items \in {DynamoItems(valid_rows, next_uuid, frame.s3_file_key, now)} :
          /\ valid_rows # << >>
          /\ \E flush \in 1..NumFlushes(Len(items)) :
                table' = table \cup {items[k] : k \in 1..((flush - 1) * FlushAmount)}
          /\ next_uuid' = next_uuid + Len(items)
          /\ calls' = Append(calls, Call("write_csv_data", FALSE, 0))
    /\ response' = ProcessingError("Failed to write data to DynamoDB: ClientError")
    /\ pc' = "idle"
    /\ UNCHANGED <<s3_service, dynamodb_service, bucket, now, event, frame, snap, handled,
                   fn_in, fn_out>>

\* the wall clock advances
Tick ==
    /\ now < MaxTime
    /\ now' = now + 1
    /\ UNCHANGED <<s3_service, dynamodb_service, bucket, table, next_uuid, pc, event, frame,
                   response, calls, snap, handled, fn_in, fn_out>>

Next ==
    \/ \E i \in EventIds : csv_preview(i)
    \/ \E i \in EventIds : csv_submit(i)
    \/ upload_csv_file
    \/ upload_csv_file_fails
    \/ write_csv_data
    \/ write_csv_data_fails
    \/ Tick

Spec == Init /\ [][Next]_vars

(***************************************************************************)
(* The csv_processor functions applied to one input each                   *)
(***************************************************************************)
InitFn == InitHandler /\ fn_in \in FnInputs /\ fn_out = NoOutput

handler_vars == <<s3_service, dynamodb_service, bucket, table, now, next_uuid, pc, event, frame,
                  response, calls, snap, handled>>

call_validate_csv_file ==
    /\ fn_out.op = "none"
    /\ fn_out' = [op |-> "validate_csv_file",
                  result |-> validate_csv_file(fn_in.file_content, fn_in.filename)]
    /\ UNCHANGED <<handler_vars, fn_in>>

call_parse_csv_content ==
    /\ fn_out.op = "none"
    /\ fn_out' = [op |-> "parse_csv_content", result |-> parse_csv_content(fn_in.file_content)]
    /\ UNCHANGED <<handler_vars, fn_in>>

call_extract_valid_rows ==
    /\ fn_out.op = "none"
    /\ fn_out' = [op |-> "extract_valid_rows", result |-> extract_valid_rows(fn_in.file_content)]
    /\ UNCHANGED <<handler_vars, fn_in>>

NextFn == call_validate_csv_file \/ call_parse_csv_content \/ call_extract_valid_rows

SpecFn == InitFn /\ [][NextFn]_vars

(***************************************************************************)
(* parse_multipart_file applied to one body and content type               *)
(***************************************************************************)
\* a file part whose filename is in single quotes
FilePartSq(filename, payload) ==
    DashDash \o Boundary \o CRLF
    \o Lit(<<"C", "o", "n", "t", "e", "n", "t", "-", "D", "i", "s", "p", "o", "s", "i", "t", "i", "o", "n", ":", " ", "f", "o", "r", "m", "-", "d", "a", "t", "a", ";", " ", "n", "a", "m", "e", "=", "\"", "f", "i", "l", "e", "\"", ";", " ", "f", "i", "l", "e", "n", "a", "m", "e", "=", "'">>)
    \o filename \o Lit(<<"'">>) \o CRLF \o CRLF \o payload \o CRLF

\* a file part of the form field "doc"
DocPart(filename, payload) ==
    DashDash \o Boundary \o CRLF
    \o Lit(<<"C", "o", "n", "t", "e", "n", "t", "-", "D", "i", "s", "p", "o", "s", "i", "t", "i", "o", "n", ":", " ", "f", "o", "r", "m", "-", "d", "a", "t", "a", ";", " ", "n", "a", "m", "e", "=", "\"", "d", "o", "c", "\"", ";", " ", "f", "i", "l", "e", "n", "a", "m", "e", "=", "\"">>)
    \o filename \o Lit(<<"\"">>) \o CRLF \o CRLF \o payload \o CRLF

FileNamedFile == Lit(<<"f", "i", "l", "e">>)

HyphenEnd == Lit(<<"n", "a", "m", "e", "\n", "a", "-">>)

NewlineEnd == Lit(<<"n", "a", "m", "e", "\n", "1", "\n">>)

Payloads == { TwoRows, EmptyFile, NonAscii, HeaderOnly, HyphenEnd, NewlineEnd, BadByte }

\* bodies with the description of what was put into them
Bodies ==
    {[data |-> FilePart(filename, payload, nl) \o Closing, sent |-> Sent(filename, payload)] :
        filename \in {ACsv, ATxt}, payload \in Payloads, nl \in {CRLF, LF}}
    \cup {[data |-> FilePartSq(ACsv, payload) \o Closing, sent |-> Sent(ACsv, payload)] :
             payload \in Payloads}
    \cup {[data |-> DocPart(filename, TwoRows) \o Closing, sent |-> SentNothing] :
             filename \in {ACsv, FileNamedFile}}
    \cup { [data |-> FieldPart \o FilePart(ACsv, TwoRows, CRLF) \o Closing, sent |-> Sent(ACsv, TwoRows)],
           [data |-> FieldPart \o Closing, sent |-> SentNothing],
           [data |-> NamelessPart \o Closing, sent |-> SentNothing],
           [data |-> << >>, sent |-> SentNothing] }

ContentTypes ==
    { ContentTypeOk, MultipartFormData, << >>,
      MultipartFormData \o Lit(<<";", " ", "b", "o", "u", "n", "d", "a", "r", "y", "=">>),
      ContentTypeOk \o Lit(<<";", " ", "c", "h", "a", "r", "s", "e", "t", "=", "u", "t", "f", "-", "8">>) }

MultipartInput(body, content_type, sent_parts) ==
    [body |-> body, content_type |-> content_type, sent |-> sent_parts]

MultipartInputs ==
    {MultipartInput([type |-> type, data |-> b.data], content_type, b.sent) :
        type \in {"bytes", "str"}, b \in Bodies, content_type \in ContentTypes}

InitMultipart == InitHandler /\ fn_in \in MultipartInputs /\ fn_out = NoOutput

call_parse_multipart_file ==
    /\ fn_out.op = "none"
    /\ fn_out' = [op |-> "parse_multipart_file",
                  result |-> parse_multipart_file(fn_in.body, fn_in.content_type)]
    /\ UNCHANGED <<handler_vars, fn_in>>

NextMultipart == call_parse_multipart_file

SpecMultipart == InitMultipart /\ [][NextMultipart]_vars

(***************************************************************************)
(* DynamoDBService.write_csv_data called on its own, one row at a time     *)
(***************************************************************************)
NameColumn == Lit(<<"n", "a", "m", "e">>)

CityColumn == Lit(<<"c", "i", "t", "y">>)

\* a row as extract_valid_rows builds it, and rows with untrimmed values
StoreRow(name, city) == [f \in {NameColumn, CityColumn} |-> IF f = NameColumn THEN name ELSE city]

StoreRows ==
    << StoreRow(Lit(<<"x">>), << >>), StoreRow(Lit(<<"x">>), Lit(<<"y">>)),
       StoreRow(Lit(<<" ">>), Lit(<<"z", " ">>)) >>

\* the lists of at most n rows that repeat one row or cycle through the rows
StoreRowSeqs(n) ==
    {[k \in 1..m |-> StoreRows[r]] : m \in 0..n, r \in DOMAIN StoreRows}
    \cup {[k \in 1..m |-> StoreRows[(k % Len(StoreRows)) + 1]] : m \in 0..n}

\* a list that takes two flushes of the batch writer and leaves rows buffered
BatchRows == [k \in 1..(2 * FlushAmount + MaxStoreRows) |-> StoreRows[(k % Len(StoreRows)) + 1]]

\* the keys of the archive writes made up to tick t
StoreKeys(t) == {S3Key(u) : u \in 0..strftime(t)}

StoreInput(csv_rows, s3_file_key) == [csv_rows |-> csv_rows, s3_file_key |-> s3_file_key]

InitStore ==
    /\ InitHandler /\ dynamodb_service = "DynamoDBService"
    /\ fn_in = StoreInput(<< >>, S3Key(0))
    /\ fn_out = NoOutput

Returned(op, result) == [op |-> op, raised |-> FALSE, result |-> result]

Raised(op, e) == [op |-> op, raised |-> TRUE, result |-> e]

\* write_csv_data_call without the early return for an empty list
write_csv_data_call_without_return(csv_rows, s3_file_key) ==
    /\ pc = "idle"
    /\ handled < MaxRequests
    /\ handled' = handled + 1
    /\ fn_in' = StoreInput(csv_rows, s3_file_key)
    /\ snap' = [bucket |-> bucket, table |-> table]
    /\ calls' = << >>
    /\ pc' = "batch"
    /\ fn_out' = NoOutput
    /\ frame' = [timestamp |-> now, records_written |-> 0, batch |-> << >>]
    /\ UNCHANGED <<s3_service, dynamodb_service, bucket, table, now, next_uuid, event, response>>

\* lines 44-52: the call, its early return, the timestamp taken once
write_csv_data_call(csv_rows, s3_file_key) ==
    /\ pc = "idle"
    /\ handled < MaxRequests
    /\ handled' = handled + 1
    /\ fn_in' = StoreInput(csv_rows, s3_file_key)
    /\ snap' = [bucket |-> bucket, table |-> table]
    /\ calls' = << >>
    /\ IF csv_rows = << >>
       THEN /\ fn_out' = Returned("write_csv_data", 0)
            /\ UNCHANGED <<pc, frame>>
       ELSE /\ pc' = "batch"
            /\ fn_out' = NoOutput
            /\ frame' = [timestamp |-> now, records_written |-> 0, batch |-> << >>]
    /\ UNCHANGED <<s3_service, dynamodb_service, bucket, table, now, next_uuid, event, response>>

\* the batch writer sends its buffer when it holds FlushAmount items
batch_after_put(batch) == IF Len(batch) >= FlushAmount THEN << >> ELSE batch

table_after_put(batch) ==
    IF Len(batch) >= FlushAmount THEN table \cup {batch[k] : k \in 1..Len(batch)} ELSE table

\* batch_put_item reading the clock for every row
batch_put_item_own_timestamp ==
    /\ pc = "batch"
    /\ frame.records_written < Len(fn_in.csv_rows)
    /\ \E item \in {DynamoItem(fn_in.csv_rows[frame.records_written + 1], 1, next_uuid,
                                fn_in.s3_file_key, now)} :
       \E batch \in {Append(frame.batch, item)} :
          /\ frame' = [frame EXCEPT !.records_written = @ + 1, !.batch = batch_after_put(batch)]
          /\ table' = table_after_put(batch)
          /\ calls' = Append(calls, Call("put_item", TRUE, item))
    /\ next_uuid' = next_uuid + 1
    /\ UNCHANGED <<s3_service, dynamodb_service, bucket, now, pc, event, response, snap, handled,
                   fn_in, fn_out>>

\* lines 53-71: one row of the loop
batch_put_item ==
    /\ pc = "batch"
    /\ frame.records_written < Len(fn_in.csv_rows)
    /\ \E item \in {DynamoItem(fn_in.csv_rows[frame.records_written + 1], 1, next_uuid,
                                fn_in.s3_file_key, frame.timestamp)} :
       \E batch \in {Append(frame.batch, item)} :
          /\ frame' = [frame EXCEPT !.records_written = @ + 1, !.batch = batch_after_put(batch)]
          /\ table' = table_after_put(batch)
          /\ calls' = Append(calls, Call("put_item", TRUE, item))
    /\ next_uuid' = next_uuid + 1
    /\ UNCHANGED <<s3_service, dynamodb_service, bucket, now, pc, event, response, snap, handled,
                   fn_in, fn_out>>

\* lines 70 and 76-83: the put that fills the buffer sends it, the batch
\* write raises inside the loop, and write_csv_data raises in turn; the items
\* taken off the buffer for the failed write are not stored
batch_put_item_fails ==
    /\ pc = "batch"
    /\ frame.records_written < Len(fn_in.csv_rows)
    /\ Len(frame.batch) + 1 >= FlushAmount
    /\ \E item \in {DynamoItem(fn_in.csv_rows[frame.records_written + 1], 1, next_uuid,
                                fn_in.s3_file_key, frame.timestamp)} :
          calls' = Append(calls, Call("put_item", FALSE, item))
    /\ frame' = [frame EXCEPT !.batch = << >>]
    /\ next_uuid' = next_uuid + 1
    /\ fn_out' = Raised("write_csv_data", "Failed to write data to DynamoDB: ClientError")
    /\ pc' = "idle"
    /\ UNCHANGED <<s3_service, dynamodb_service, bucket, table, now, event, response, snap,
                   handled, fn_in>>

\* batch_writer_exit_fails returning the count although the batch write raised
batch_writer_exit_swallowing ==
    /\ pc = "batch"
    /\ frame.records_written = Len(fn_in.csv_rows)
    /\ calls' = Append(calls, Call("batch_write_item", FALSE, 0))
    /\ fn_out' = Returned("write_csv_data", frame.records_written)
    /\ pc' = "idle"
    /\ UNCHANGED <<s3_service, dynamodb_service, bucket, table, now, next_uuid, event, frame,
                   response, snap, handled, fn_in>>

\* lines 52 and 74: leaving the with block sends what is still buffered,
\* and the call returns records_written
batch_writer_exit ==
    /\ pc = "batch"
    /\ frame.records_written = Len(fn_in.csv_rows)
    /\ table' = table \cup {frame.batch[k] : k \in 1..Len(frame.batch)}
    /\ frame' = [frame EXCEPT !.batch = << >>]
    /\ calls' = Append(calls, Call("batch_write_item", TRUE, Len(frame.batch)))
    /\ fn_out' = Returned("write_csv_data", frame.records_written)
    /\ pc' = "idle"
    /\ UNCHANGED <<s3_service, dynamodb_service, bucket, now, next_uuid, event, response, snap,
                   handled, fn_in>>

\* lines 76-83: the batch write raises and write_csv_data raises in turn
batch_writer_exit_fails ==
    /\ pc = "batch"
    /\ frame.records_written = Len(fn_in.csv_rows)
    /\ calls' = Append(calls, Call("batch_write_item", FALSE, 0))
    /\ fn_out' = Raised("write_csv_data", "Failed to write data to DynamoDB: ClientError")
    /\ pc' = "idle"
    /\ UNCHANGED <<s3_service, dynamodb_service, bucket, table, now, next_uuid, event, frame,
                   response, snap, handled, fn_in>>

NextStore ==
    \/ \E csv_rows \in StoreRowSeqs(MaxStoreRows), s3_file_key \in StoreKeys(now) :
          write_csv_data_call(csv_rows, s3_file_key)
    \/ batch_put_item
    \/ batch_writer_exit
    \/ batch_writer_exit_fails
    \/ Tick

SpecStore == InitStore /\ [][NextStore]_vars

\* write_csv_data called with lists longer than a flush, the clock standing
NextBatch ==
    \/ write_csv_data_call(BatchRows, S3Key(0))
    \/ batch_put_item
    \/ batch_put_item_fails
    \/ batch_writer_exit
    \/ batch_writer_exit_fails

SpecBatch == InitStore /\ [][NextBatch]_vars

(***************************************************************************)
(* Properties of /csv-submit and /csv-preview (specification Spec)         *)
(***************************************************************************)
Submitted == event.path = "/csv-submit"

Previewing == event.path = "/csv-preview"

Attempts(op) == {k \in 1..Len(calls) : calls[k].op = op}

\* the 200 response of /csv-submit reports what the two store calls returned
ReportsStoreResults(body) ==
    /\ Len(calls) >= 1
    /\ calls[1].op = "upload_csv_file" /\ calls[1].ok
    /\ body.s3_file_key = S3Key(calls[1].result)
    /\ body.s3_file_key \in DOMAIN bucket
    /\ body.message = Text("Successfully processed {} rows", <<body.dynamodb_records_written>>)
    /\ IF body.dynamodb_records_written > 0
       THEN /\ Len(calls) = 2
            /\ calls[2] = Call("write_csv_data", TRUE, body.dynamodb_records_written)
       ELSE Len(calls) = 1

\* C1: in every /csv-submit request the record-store write is attempted only
\* after the archive write of the same request succeeded; no response is
\* produced while either write is pending; and the 200 response carries the
\* key the archive write returned and the count the record store returned,
\* which is the <n> of its message (with no valid row the record store is
\* not called and the count is 0).
C1_ArchiveThenRecordsThenResponse ==
    /\ \A k \in Attempts("write_csv_data") :
          k = 2 /\ calls[1].op = "upload_csv_file" /\ calls[1].ok
    /\ pc \in {"upload", "write"} => response = NoResponse
    /\ pc = "write" => Len(calls) = 1 /\ calls[1].op = "upload_csv_file" /\ calls[1].ok
    /\ (Submitted /\ response.status_code = 200) => ReportsStoreResults(response.body)

C1_Witness ==
    /\ Submitted /\ response.status_code = 200
    /\ Len(calls) = 2 /\ calls[2].ok /\ calls[2].result = 2
    /\ response.body.dynamodb_records_written = 2

\* what the client put into the request being handled
sent == Events[event.id].sent

ContentTypeAccepted == StartsWith(Events[event.id].content_type, MultipartFormData)

\* C2 (as claimed): with the services initialized a request with a missing
\* or invalid content type is answered 400 InvalidContentType; otherwise one
\* without a file part 400 NoFileProvided; otherwise one whose file fails
\* validate_csv_file 400 InvalidFile with the validator's reason; only other
\* requests reach the preview or the stores.
C2_ErrorOrder ==
    (event.id # 0 /\ s3_service # "None" /\ pc = "idle") =>
        IF ~ContentTypeAccepted THEN response = InvalidContentType
        ELSE IF ~sent.has_file THEN response = NoFileProvided
        ELSE IF ~validate_csv_file(sent.payload, sent.filename).ok
        THEN response = InvalidFile(validate_csv_file(sent.payload, sent.filename))
        ELSE response.status_code \in {200, 500}

\* C3: a /csv-preview request writes to neither store, whatever its
\* outcome, and a /csv-submit request answered 400 or 503 leaves both stores
\* as they were when it arrived.
C3_NoPersistence ==
    /\ Previewing => bucket = snap.bucket /\ table = snap.table /\ calls = << >>
    /\ (Submitted /\ response.status_code \in {400, 503}) =>
          bucket = snap.bucket /\ table = snap.table /\ calls = << >>

C3_Witness ==
    /\ handled = 2 /\ bucket # EmptyBucket /\ table # {}
    /\ \/ Previewing /\ response.status_code = 200
       \/ Submitted /\ response.status_code = 400

\* C4: after a failed start every request to either endpoint is answered
\* 503 ServiceUnavailable whatever its content type, body or file; the
\* services are never initialized again; no store operation is performed.
C4_Inv ==
    (s3_service = "None" \/ dynamodb_service = "None") =>
        /\ event.id # 0 => response = ServiceUnavailable
        /\ pc = "idle" /\ calls = << >>
        /\ bucket = EmptyBucket /\ table = {}

C4_ServiceUnavailableStands ==
    [](C4_Inv) /\ [][s3_service' = s3_service /\ dynamodb_service' = dynamodb_service]_vars

C4_Witness ==
    /\ s3_service = "None" /\ handled = 2 /\ response = ServiceUnavailable
    /\ ~ContentTypeAccepted

\* C5: a failed archive or record-store write ends the request with a 500
\* ProcessingError whose body holds an error code and a message only (no
\* archive key, no row count), and neither store call is attempted more
\* than once per request.
C5_FailureIsFinal ==
    /\ Cardinality(Attempts("upload_csv_file")) <= 1
    /\ Cardinality(Attempts("write_csv_data")) <= 1
    /\ (\E k \in 1..Len(calls) : ~calls[k].ok) =>
          /\ pc = "idle"
          /\ ~calls[Len(calls)].ok
          /\ response.status_code = 500
          /\ response.body.error = "ProcessingError"
          /\ DOMAIN response.body = {"error", "message"}
    /\ response.status_code = 500 => calls # << >> /\ ~calls[Len(calls)].ok

C5_Witness ==
    /\ response.status_code = 500 /\ Len(calls) = 2
    /\ calls[1].ok /\ ~calls[2].ok /\ bucket # snap.bucket

\* C22: submit has no rollback: when the archive write succeeds and the
\* record-store write then fails, the response is 500 ProcessingError, the
\* object archived by the request is still in the bucket, and the items the
\* request flushed before the failure are still in the table: an archive
\* object exists for a submit that did not return success.
C22_NoRollback ==
    (Submitted /\ pc = "idle" /\ Len(calls) = 2 /\ calls[1].ok /\ ~calls[2].ok) =>
        /\ response.status_code = 500
        /\ response.body.error = "ProcessingError"
        /\ frame.s3_file_key \in DOMAIN bucket
        /\ bucket[frame.s3_file_key]
              = S3Object(Evaluated[event.id].file.file_content,
                         Evaluated[event.id].file.filename, calls[1].result)
        /\ snap.table \subseteq table
        /\ \A t \in table \ snap.table : t.source_file = frame.s3_file_key
        /\ Cardinality(table \ snap.table) % FlushAmount = 0

C22_Witness ==
    /\ Submitted /\ pc = "idle" /\ response.status_code = 500
    /\ Len(calls) = 2 /\ calls[1].ok /\ ~calls[2].ok
    /\ frame.s3_file_key \in DOMAIN bucket \ DOMAIN snap.bucket
    /\ Cardinality(table \ snap.table) = FlushAmount

\* C23: after any sequence of requests, failed submits included, every item
\* in the table has a source_file that is the key of an object in the
\* bucket, and has at least one schema field, with a value, besides
\* entry_id, source_file and created_at.
C23_ReferentialIntegrity ==
    \A t \in table :
        /\ t.source_file \in DOMAIN bucket
        /\ DOMAIN t.fields # {}
        /\ DOMAIN t.fields \subseteq PREDEFINED_COLUMNS
        /\ \A f \in DOMAIN t.fields : t.fields[f] # << >>

C23_Witness ==
    /\ handled = 2 /\ pc = "idle" /\ Submitted /\ response.status_code = 500
    /\ snap.table # {} /\ table # snap.table
    /\ \E t \in table, u \in table : t.source_file # u.source_file

\* C24: the file bytes the two endpoints hand to validate_csv_file,
\* parse_csv_content, upload_csv_file and extract_valid_rows are always
\* valid UTF-8, parse_multipart_file having decoded the body dropping what
\* does not decode and encoded the payload again; so no request is answered
\* with the encoding rejection of validate_csv_file, and what is archived
\* can differ from the bytes the client uploaded.
C24_AlwaysUtf8 ==
    /\ event.id \in EventIds =>
          \E file \in {Evaluated[event.id].file} :
             file.found => Utf8Valid(file.file_content)
    /\ pc # "idle" => Utf8Valid(frame.file_content)
    /\ \A k \in DOMAIN bucket : Utf8Valid(bucket[k].Body)
    /\ response.status_code = 400 =>
          response.body.message.text # "File encoding not supported. Please use UTF-8 encoding"

C24_Witness ==
    /\ Submitted /\ pc = "idle" /\ response.status_code = 200
    /\ ~Utf8Valid(sent.payload)
    /\ bucket[response.body.s3_file_key].Body # sent.payload
    /\ bucket[response.body.s3_file_key].Body = Evaluated[event.id].file.file_content
    /\ table # snap.table

\* C14 (as claimed): the object stored under a key by a successful archive
\* write is never changed or removed afterwards, whatever requests follow.
C14_ArchiveImmutable ==
    [][\A k \in DOMAIN bucket : k \in DOMAIN bucket' /\ bucket'[k] = bucket[k]]_vars

\* C15: the archive write stores the file under user_data_<second>.csv,
\* the second being that of the wall clock at the write and nothing else;
\* it replaces whatever object the bucket holds under that key (so a write
\* in the same second as an earlier one overwrites it) and leaves the
\* other objects alone; the key is the one the request goes on with.
C15_SecondResolutionKey ==
    [][(pc = "upload" /\ pc' = "write") =>
          \E key \in {[prefix |-> "user_data_", timestamp |-> now \div TicksPerSecond,
                       suffix |-> ".csv"]} :
             /\ frame'.s3_file_key = key
             /\ DOMAIN bucket' = DOMAIN bucket \cup {key}
             /\ bucket'[key].Body = frame.file_content
             /\ bucket'[key].Metadata.original_filename = frame.filename
             /\ \A k \in DOMAIN bucket \ {key} : bucket'[k] = bucket[k]]_vars

C15_Witness ==
    /\ handled = 2 /\ Submitted /\ calls # << >> /\ calls[1].ok
    /\ snap.bucket # EmptyBucket
    /\ DOMAIN bucket = DOMAIN snap.bucket /\ bucket # snap.bucket
    /\ now % TicksPerSecond # 0

(***************************************************************************)
(* Properties of the csv_processor functions (specification SpecFn)        *)
(***************************************************************************)
Parsed == fn_out.op = "parse_csv_content"

Checked == fn_out.op = "validate_csv_file"

\* C6: every result of parse_csv_content has valid_rows <= total_rows,
\* status error exactly when valid_columns is empty, status success exactly
\* when valid_rows > 0 and status warning otherwise; a file of a header
\* alone with a valid column gives total_rows = 0 and status warning.
C6_PreviewResultInvariant ==
    Parsed =>
        \E r \in {fn_out.result} :
            /\ r.valid_rows <= r.total_rows
            /\ r.status \in {"error", "success", "warning"}
            /\ r.status = "error" <=> r.valid_columns = {}
            /\ r.status = "success" <=> r.valid_rows > 0
            /\ (fn_in.file_content \in HeaderLines /\ r.valid_columns # {}) =>
                  r.total_rows = 0 /\ r.status = "warning"

C6_Witness ==
    /\ Parsed /\ fn_in.file_content \in HeaderLines
    /\ fn_out.result.valid_columns # {} /\ fn_out.result.status = "warning"

\* the header row of the input, as the DictReader reads it
InputHeader == DictReader_fieldnames(DecodeIgnore(fn_in.file_content))

HeaderRead == Utf8Valid(fn_in.file_content) /\ InputHeader.kind # "csv.Error"

SchemaHeaders == {h \in FieldSet(InputHeader.fields) : Lower(h) \in PREDEFINED_COLUMNS}

\* C7 (as claimed): a header is in valid_columns exactly when its lower-cased
\* name is a schema name, and in invalid_columns otherwise, in its original
\* casing; the two sets are disjoint and together are the headers.
C7_CaseInsensitiveColumns ==
    (Parsed /\ HeaderRead /\ fn_out.result.message.text # "Failed to parse CSV file") =>
        /\ fn_out.result.valid_columns = SchemaHeaders
        /\ fn_out.result.invalid_columns = FieldSet(InputHeader.fields) \ SchemaHeaders

ExtensionOk == EndsWith(Lower(fn_in.filename), DotCsv)

SizeOk == StrLen(fn_in.file_content) <= MAX_FILE_SIZE_BYTES

DecodeOk == Utf8Valid(fn_in.file_content)

FirstRow == csv_reader_next(DecodeIgnore(fn_in.file_content), 1)

\* C8: validate_csv_file reports the reason of the first failing check in
\* the order extension, size, UTF-8 decoding, parse of the first row, and
\* accepts with an empty reason exactly when all four pass.
C8_CheckOrder ==
    Checked =>
        \E r \in {fn_out.result} :
            /\ ~ExtensionOk => r = Rejected("Only .csv files are accepted", NoDetail)
            /\ (ExtensionOk /\ ~SizeOk) =>
                  ~r.ok /\ r.msg = "File size exceeds 5MB limit (current: {:.2f}MB)"
            /\ (ExtensionOk /\ SizeOk /\ ~DecodeOk) =>
                  r = Rejected("File encoding not supported. Please use UTF-8 encoding", NoDetail)
            /\ (ExtensionOk /\ SizeOk /\ DecodeOk /\ FirstRow.kind = "StopIteration") =>
                  r = Rejected("Empty CSV file", NoDetail)
            /\ (ExtensionOk /\ SizeOk /\ DecodeOk /\ FirstRow.kind = "csv.Error") =>
                  r = Rejected("Invalid CSV format: " \o FirstRow.msg, NoDetail)
            /\ r.ok <=> (ExtensionOk /\ SizeOk /\ DecodeOk /\ FirstRow.kind = "row")
            /\ r.ok => r.msg = ""

C8_Witness ==
    /\ Checked /\ ~ExtensionOk /\ ~SizeOk /\ ~DecodeOk
    /\ fn_out.result.msg = "Only .csv files are accepted"

SizeReason == "File size exceeds 5MB limit (current: {:.2f}MB)"

\* C9: validate_csv_file rejects every input longer than 5 * 1024 * 1024
\* bytes, well-formed or not, and gives the size reason to no input of
\* exactly that length or less.
C9_SizeLimit ==
    Checked =>
        /\ StrLen(fn_in.file_content) > 5 * 1024 * 1024 => ~fn_out.result.ok
        /\ StrLen(fn_in.file_content) <= 5 * 1024 * 1024 => fn_out.result.msg # SizeReason

C9_Witness ==
    /\ Checked /\ StrLen(fn_in.file_content) = 5 * 1024 * 1024
    /\ fn_out.result.ok

\* C10: when no header of the file matches the schema, parse_csv_content
\* returns status error with valid_columns empty, total_rows = 0,
\* valid_rows = 0 and an empty preview however many data rows follow, and
\* one error that names the whole schema.
C10_NoOverlapShortCircuit ==
    (Parsed /\ HeaderRead /\ SchemaHeaders = {}) =>
        \E r \in {fn_out.result} :
            /\ r.status = "error"
            /\ r.valid_columns = {}
            /\ r.invalid_columns = FieldSet(InputHeader.fields)
            /\ r.total_rows = 0 /\ r.valid_rows = 0
            /\ r.preview_data = << >>
            /\ Len(r.errors) = 1 /\ r.errors[1].cols = PREDEFINED_COLUMNS

C10_Witness ==
    /\ Parsed /\ HeaderRead /\ SchemaHeaders = {}
    /\ fn_in.file_content = NoOverlap
    /\ fn_out.result.total_rows = 0

Extracted == fn_out.op = "extract_valid_rows"

\* the data rows of the input as the DictReader yields them, up to the end
\* of the input or to the row that fails to parse
InputRows == DictReader_rows(DecodeIgnore(fn_in.file_content), InputHeader.next)

\* the input decodes and parses to its end
InputParses == HeaderRead /\ InputRows.err = ""

NewlineCount == Cardinality({i \in 1..Len(fn_in.file_content) : fn_in.file_content[i][1] = "\n"})

\* inputs built as a header line followed by one line per data row
LineFiles == CsvFiles \cup {LongFile, LongFileWithBlanks, BlankRows, TwoRows}

Mapped(rows, k) == normalized_row(InputHeader.fields, rows[k])

\* the data rows with a mapped field that is not empty after trimming
KeptRows(rows) ==
    {k \in 1..Len(rows) : \E f \in DOMAIN Mapped(rows, k) : Mapped(rows, k)[f] # << >>}

\* result holds the kept rows in file order, trimmed, schema fields only
RowsExtracted(result, rows) ==
    \E kept \in {KeptRows(rows)} :
        /\ Len(result) = Cardinality(kept)
        /\ \A j \in 1..Len(result) :
              /\ \E k \in kept : Cardinality({m \in kept : m <= k}) = j /\ result[j] = Mapped(rows, k)
              /\ DOMAIN result[j] = {Lower(h) : h \in SchemaHeaders}
              /\ \A f \in DOMAIN result[j] : result[j][f] = Strip(result[j][f])

C18_ExtractAgreesWithPreview ==
    Extracted =>
        \E p \in {parse_csv_content(fn_in.file_content)} :
            /\ Len(fn_out.result) <= p.valid_rows
            /\ (p.status = "error" /\ p.valid_columns = {}) => fn_out.result = << >>

\* C19: preview_data holds the first min(10, valid_rows) valid rows in file
\* order, each keyed by the accepted columns; errors holds at most 10
\* entries; the rows after the tenth still count in total_rows and
\* valid_rows.
C19_PreviewCap ==
    (Parsed /\ fn_out.result.valid_columns # {}) =>
        \E r \in {fn_out.result} : \E rows \in {InputRows.rows} :
            /\ Len(r.preview_data) = IF r.valid_rows < 10 THEN r.valid_rows ELSE 10
            /\ Len(r.errors) <= 10
            /\ r.valid_rows = Len(rows)
            /\ \A j \in 1..Len(r.preview_data) :
                  /\ DOMAIN r.preview_data[j] = r.valid_columns
                  /\ \A col \in r.valid_columns :
                        \E o \in FieldSet(InputHeader.fields) :
                            /\ Lower(o) = Lower(col)
                            /\ r.preview_data[j][col] = Strip(RowGet(InputHeader.fields, rows[j], o))

C19_Witness ==
    /\ Parsed /\ fn_in.file_content = LongFile
    /\ Len(fn_out.result.preview_data) = 10
    /\ fn_out.result.valid_rows > 10 /\ fn_out.result.total_rows > 10

(***************************************************************************)
(* Properties of write_csv_data (specification SpecStore)                  *)
(***************************************************************************)
WriteReturned == fn_out.op = "write_csv_data" /\ ~fn_out.raised

PutItems == {k \in 1..Len(calls) : calls[k].op = "put_item"}

\* C13: write_csv_data called with n rows returns n whenever the batch
\* write succeeds, having put n items; called with an empty list it returns
\* 0 and makes no call on the table.
C13_CountWritten ==
    /\ (pc = "idle" /\ WriteReturned) =>
          /\ fn_out.result = Len(fn_in.csv_rows)
          /\ Cardinality(PutItems) = Len(fn_in.csv_rows)
          /\ Cardinality(table) = Cardinality(snap.table) + Len(fn_in.csv_rows)
    /\ (pc = "idle" /\ handled > 0 /\ fn_in.csv_rows = << >>) =>
          /\ fn_out = Returned("write_csv_data", 0)
          /\ calls = << >>
          /\ table = snap.table
    /\ (pc = "idle" /\ handled > 0 /\ fn_in.csv_rows # << >> /\ calls[Len(calls)].ok) =>
          WriteReturned

C13_Witness ==
    /\ pc = "idle" /\ handled = 2 /\ fn_in.csv_rows = << >>
    /\ fn_out = Returned("write_csv_data", 0)
    /\ Cardinality(table) = 2

\* C20: every item put by write_csv_data has an entry_id no other item put
\* or stored has, source_file equal to the s3_file_key of the call, the
\* created_at of the other items of the call, and exactly the fields of its
\* row whose value is not empty after trimming.
C20_ItemsOfACall ==
    /\ \A i \in PutItems :
          \E item \in {calls[i].result} : \E row \in {fn_in.csv_rows[i]} :
             /\ \A j \in PutItems : j # i => calls[j].result.entry_id # item.entry_id
             /\ \A t \in snap.table : t.entry_id # item.entry_id
             /\ item.source_file = fn_in.s3_file_key
             /\ \A j \in PutItems : calls[j].result.created_at = item.created_at
             /\ DOMAIN item.fields = {f \in DOMAIN row : Strip(row[f]) # << >>}
             /\ \A f \in DOMAIN item.fields : item.fields[f] = Strip(row[f])
    /\ \A t \in table :
          /\ \A u \in table : u.entry_id = t.entry_id => u = t
          /\ \A f \in DOMAIN t.fields : t.fields[f] # << >>

C20_Witness ==
    /\ pc = "idle" /\ handled = 2 /\ WriteReturned /\ fn_out.result = 2
    /\ fn_in.csv_rows[1] = fn_in.csv_rows[2]
    /\ snap.table # {} /\ Cardinality(table) = Cardinality(snap.table) + 2
    /\ now > calls[1].result.created_at
    /\ \E i \in PutItems : DOMAIN calls[i].result.fields # DOMAIN fn_in.csv_rows[i]

WriteRaised == fn_out.op = "write_csv_data" /\ fn_out.raised

\* the items put so far by the current call, in the order of the rows
PutSoFar(n) == {calls[k].result : k \in {j \in PutItems : j <= n}}

\* C21: write_csv_data is not transactional: when a batch write raises the
\* call raises instead of returning a count, and the items of the call that
\* are stored are those of a prefix of its rows, in the order given: no item
\* of a later row is stored while the item of an earlier row is not.
C21_PersistedPrefix ==
    /\ (pc = "idle" /\ calls # << >> /\ ~calls[Len(calls)].ok) =>
          /\ WriteRaised
          /\ fn_out.result = "Failed to write data to DynamoDB: ClientError"
    /\ handled > 0 =>
          \E n \in 0..Len(fn_in.csv_rows) : table = snap.table \cup PutSoFar(n)
    /\ WriteRaised =>
          \A i \in PutItems, j \in PutItems :
             (i < j /\ calls[j].result \in table) => calls[i].result \in table

C21_Witness ==
    /\ pc = "idle" /\ WriteRaised /\ fn_in.csv_rows = BatchRows
    /\ Cardinality(PutItems) = 2 * FlushAmount
    /\ snap.table # {} /\ Cardinality(table \ snap.table) = FlushAmount
    /\ \A i \in PutItems : calls[i].result \in table <=> i <= FlushAmount

(***************************************************************************)
(* Properties of parse_multipart_file (specification SpecMultipart)        *)
(***************************************************************************)
MultipartParsed == fn_out.op = "parse_multipart_file"

\* C16 (as claimed): parse_multipart_file returns (None, None) whenever the
\* content type has no boundary= parameter, whatever the body, and whenever
\* no part of the body is a form field named "file" with a filename.
C16_NotFound ==
    MultipartParsed =>
        /\ ~Contains(fn_in.content_type, BoundaryEq) => fn_out.result = NoFile
        /\ ~fn_in.sent.has_file => fn_out.result = NoFile

\* C17 (as claimed): the content returned for the file part is what follows
\* the first blank line of the part, for either line ending, less trailing
\* boundary markers and trailing CR, LF and hyphen characters.
C17_PayloadAfterSeparator ==
    (MultipartParsed /\ fn_in.sent.has_file /\ fn_out.result.found) =>
        fn_out.result.file_content = RStrip(fn_in.sent.payload, {"\r", "\n", "-"})

====
